---------------------------- MODULE Spec2Model ----------------------------
(***************************************************************************)
(* A model of the cFS-flavour CCSDS packet codec of src/src/lib.rs:        *)
(* Command<T> and Telemetry<T> (construction, byte round trip, accessors,  *)
(* setters, sequence counter, timestamp) and fill_char_array.              *)
(*                                                                         *)
(* Byte arrays and slices are functions over 0..n-1, as in the source.     *)
(* T is a payload type of alignment <= 8 without padding, so that          *)
(* size_of::<Command<T>>() = 8 + size_of::<T>() and                        *)
(* size_of::<Telemetry<T>>() = 16 + size_of::<T>(); a payload value is the *)
(* array of its bytes.  A u64 / u32 that does not fit TLC's integers is    *)
(* held as the array of its bytes, least significant first.  Every bit     *)
(* pattern is a valid T, so from_bytes's safety precondition always holds. *)
(***************************************************************************)
EXTENDS Integers, Sequences, FiniteSets, TLC

VARIABLES
    kind,   \* "Command" or "Telemetry": the packet type of the behaviour
    sizeT,  \* size_of::<T>()
    pkt,    \* the packet held, <<p>> with p = [header, payload], or <<>>
    prev,   \* the packet before the last method call, or <<>>
    op,     \* the function called last, "none" before the first call
    arg,    \* its arguments
    res,    \* its result, "Ok" or "Err"
    calls,  \* the calls of increment_sequence_num so far
    orig,   \* sequence_number() of a telemetry packet when it was built
    fill    \* the last call of fill_char_array with its result, or <<>>

vars == <<kind, sizeT, pkt, prev, op, arg, res, calls, orig, fill>>

-----------------------------------------------------------------------------
(* Bounds of the model *)

\* largest size_of::<T>() of the small payload types
MaxPayload == 1
\* increment_sequence_num calls per packet in Spec
MaxIncr == 2
\* largest capacity N of fill_char_array
MaxN == 3
\* longest input of fill_char_array
MaxLen == 4

-----------------------------------------------------------------------------
(* Machine arithmetic *)

Byte == 0..255

RECURSIVE BitAnd(_, _)
BitAnd(a, b) == IF a = 0 \/ b = 0 THEN 0 ELSE ((a % 2) * (b % 2)) + 2 * BitAnd(a \div 2, b \div 2)

RECURSIVE BitOr(_, _)
BitOr(a, b) == IF a = 0 THEN b ELSE IF b = 0 THEN a ELSE (IF a % 2 = 1 \/ b % 2 = 1 THEN 1 ELSE 0) + 2 * BitOr(a \div 2, b \div 2)

Shr(a, n) == a \div (2 ^ n)

Shl(a, n) == a * (2 ^ n)

AsU8(x) == x % 256

AsU16(x) == x % 65536

\* number of elements of an array or slice
Len0(a) == Cardinality(DOMAIN a)

\* (x >> n) as u8 of a u64 held as its bytes, n a multiple of 8
U64ShrAsU8(x, n) == x[n \div 8]

\* (a << 24) | (b << 16) | (c << 8) | d as a u32 held as its bytes
U32FromBytes(a, b, c, d) == [i \in 0..3 |-> IF i = 3 THEN a ELSE IF i = 2 THEN b ELSE IF i = 1 THEN c ELSE d]

\* bit i of (n as u64) * (1 << 16), for n < 2^31
BitOfShl16(n, i) == IF i < 16 \/ i > 46 THEN 0 ELSE Shr(n, i - 16) % 2

\* (n as u64 * (1 << 16)) / d by shift-and-subtract over the 48 bits of the
\* product (n < 2^32), every partial remainder staying below 2 * d
RECURSIVE DivShl16(_, _, _, _, _)
DivShl16(n, d, i, rem, q) == IF i < 0 THEN q ELSE LET r2 == 2 * rem + BitOfShl16(n, i) IN IF r2 >= d THEN DivShl16(n, d, i - 1, r2 - d, 2 * q + 1) ELSE DivShl16(n, d, i - 1, r2, 2 * q)

-----------------------------------------------------------------------------
(* Layout *)

CommandHeaderLen == 8

TelemetryHeaderLen == 16

HeaderLen(k) == IF k = "Command" THEN CommandHeaderLen ELSE TelemetryHeaderLen

\* size_of::<Self>()
SizeOfSelf(k, n) == HeaderLen(k) + n

Command_ALLOWED_MSG_ID_RANGE == 6144..8191

Telemetry_ALLOWED_MSG_ID_RANGE == 2048..4095

MAX_FUNCTION_CODE == 127

\* the 14 bits of the sequence count
SEQUENCE_MASK == 16383

Ok(p) == [ok |-> TRUE, pkt |-> <<p>>]

Err == [ok |-> FALSE, pkt |-> <<>>]

\* Result<(), ()> of a setter together with the packet it leaves
Done(okay, p) == [ok |-> okay, pkt |-> <<p>>]

-----------------------------------------------------------------------------
(* Command<T> *)

\* the header array of Command::new
CommandHeader(msg_id, len_field, fc) ==
    [i \in 0..7 |->
        CASE i = 0 -> AsU8(Shr(msg_id, 8))
          [] i = 1 -> AsU8(msg_id)
          [] i = 2 -> 192
          [] i = 3 -> 0
          [] i = 4 -> AsU8(Shr(len_field, 8))
          [] i = 5 -> AsU8(len_field)
          [] i = 6 -> AsU8(fc)
          [] i = 7 -> 0]

\* Command::new checking the function code after its cast to u8
Command_new_CastFirst(msg_id, fc, payload) ==
    LET len_field == SizeOfSelf("Command", Len0(payload)) - 7
    IN  IF /\ msg_id \in Command_ALLOWED_MSG_ID_RANGE
           /\ AsU8(fc) <= MAX_FUNCTION_CODE
           /\ len_field <= 65535
        THEN Ok([header |-> CommandHeader(msg_id, len_field, fc), payload |-> payload])
        ELSE Err

Command_new(msg_id, fc, payload) ==
    LET len_field == SizeOfSelf("Command", Len0(payload)) - 7
    IN  IF /\ msg_id \in Command_ALLOWED_MSG_ID_RANGE
           /\ fc <= MAX_FUNCTION_CODE
           /\ len_field <= 65535
        THEN Ok([header |-> CommandHeader(msg_id, len_field, fc), payload |-> payload])
        ELSE Err

\* the object's bytes: the header, then the payload
as_bytes(p) ==
    LET hl == Len0(p.header)
    IN  [i \in 0..(hl + Len0(p.payload) - 1) |->
            IF i < hl THEN p.header[i] ELSE p.payload[i - hl]]

\* read_unaligned of a Self out of the buffer
ReadSelf(k, n, bytes) ==
    [header  |-> [i \in 0..(HeaderLen(k) - 1) |-> bytes[i]],
     payload |-> [i \in 0..(n - 1) |-> bytes[HeaderLen(k) + i]]]

\* Command::from_bytes rejecting only sequence flags 00
Command_from_bytes_AnyFlag(n, bytes) ==
    IF Len0(bytes) # SizeOfSelf("Command", n) THEN Err
    ELSE LET msg_id == BitOr(Shl(bytes[0], 8), bytes[1])
             msg_len == BitOr(Shl(bytes[4], 8), bytes[5]) + 7
         IN  IF \/ ~(msg_id \in Command_ALLOWED_MSG_ID_RANGE)
                \/ msg_len # SizeOfSelf("Command", n)
                \/ BitAnd(bytes[2], 192) = 0
                \/ BitAnd(bytes[6], 128) # 0
             THEN Err
             ELSE Ok(ReadSelf("Command", n, bytes))

Command_from_bytes(n, bytes) ==
    IF Len0(bytes) # SizeOfSelf("Command", n) THEN Err
    ELSE LET msg_id == BitOr(Shl(bytes[0], 8), bytes[1])
             msg_len == BitOr(Shl(bytes[4], 8), bytes[5]) + 7
         IN  IF \/ ~(msg_id \in Command_ALLOWED_MSG_ID_RANGE)
                \/ msg_len # SizeOfSelf("Command", n)
                \/ BitAnd(bytes[2], 192) # 192
                \/ BitAnd(bytes[6], 128) # 0
             THEN Err
             ELSE Ok(ReadSelf("Command", n, bytes))

Command_msg_id(p) == BitOr(Shr(p.header[0], 8), p.header[1])

function_code(p) == p.header[6]

\* Command::set_msg_id writing the bytes before the range check
Command_set_msg_id_WriteFirst(p, msg_id) ==
    LET q == [p EXCEPT !.header[0] = AsU8(Shr(msg_id, 8)), !.header[1] = AsU8(msg_id)]
    IN  IF msg_id \in Command_ALLOWED_MSG_ID_RANGE THEN Done(TRUE, q) ELSE Done(FALSE, q)

Command_set_msg_id(p, msg_id) ==
    IF msg_id \in Command_ALLOWED_MSG_ID_RANGE
    THEN Done(TRUE, [p EXCEPT !.header[0] = AsU8(Shr(msg_id, 8)), !.header[1] = AsU8(msg_id)])
    ELSE Done(FALSE, p)

\* Command::set_function_code writing header[1]
set_function_code_WrongByte(p, fc) ==
    IF fc <= MAX_FUNCTION_CODE
    THEN Done(TRUE, [p EXCEPT !.header[1] = AsU8(fc)])
    ELSE Done(FALSE, p)

set_function_code(p, fc) ==
    IF fc <= MAX_FUNCTION_CODE
    THEN Done(TRUE, [p EXCEPT !.header[6] = AsU8(fc)])
    ELSE Done(FALSE, p)

-----------------------------------------------------------------------------
(* Telemetry<T> *)

\* the header array of Telemetry::new
TelemetryHeader(msg_id, len_field) ==
    [i \in 0..15 |->
        CASE i = 0 -> AsU8(Shr(msg_id, 8))
          [] i = 1 -> AsU8(msg_id)
          [] i = 2 -> 192
          [] i = 3 -> 0
          [] i = 4 -> AsU8(Shr(len_field, 8))
          [] i = 5 -> AsU8(len_field)
          [] OTHER -> 0]

Telemetry_new(msg_id, payload) ==
    LET len_field == SizeOfSelf("Telemetry", Len0(payload)) - 7
    IN  IF msg_id \in Telemetry_ALLOWED_MSG_ID_RANGE /\ len_field <= 65535
        THEN Ok([header |-> TelemetryHeader(msg_id, len_field), payload |-> payload])
        ELSE Err

\* Telemetry::from_bytes with the Command's check of byte 6
Telemetry_from_bytes_Byte6(n, bytes) ==
    IF Len0(bytes) # SizeOfSelf("Telemetry", n) THEN Err
    ELSE LET msg_id == BitOr(Shl(bytes[0], 8), bytes[1])
             msg_len == BitOr(Shl(bytes[4], 8), bytes[5]) + 7
         IN  IF \/ ~(msg_id \in Telemetry_ALLOWED_MSG_ID_RANGE)
                \/ msg_len # SizeOfSelf("Telemetry", n)
                \/ BitAnd(bytes[2], 192) # 192
                \/ BitAnd(bytes[6], 128) # 0
             THEN Err
             ELSE Ok(ReadSelf("Telemetry", n, bytes))

Telemetry_from_bytes(n, bytes) ==
    IF Len0(bytes) # SizeOfSelf("Telemetry", n) THEN Err
    ELSE LET msg_id == BitOr(Shl(bytes[0], 8), bytes[1])
             msg_len == BitOr(Shl(bytes[4], 8), bytes[5]) + 7
         IN  IF \/ ~(msg_id \in Telemetry_ALLOWED_MSG_ID_RANGE)
                \/ msg_len # SizeOfSelf("Telemetry", n)
                \/ BitAnd(bytes[2], 192) # 192
             THEN Err
             ELSE Ok(ReadSelf("Telemetry", n, bytes))

Telemetry_msg_id(p) == BitOr(Shr(p.header[0], 8), p.header[1])

\* (seconds as the bytes of a u32, subsecs)
timestamp(p) ==
    [seconds |-> U32FromBytes(p.header[6], p.header[7], p.header[8], p.header[9]),
     subsecs |-> BitOr(Shl(p.header[10], 8), p.header[11])]

sequence_number(p) == BitAnd(BitOr(Shl(p.header[2], 8), p.header[3]), SEQUENCE_MASK)

\* Telemetry::set_msg_id checking the Command's range
Telemetry_set_msg_id_CommandRange(p, msg_id) ==
    IF msg_id \in Command_ALLOWED_MSG_ID_RANGE
    THEN Done(TRUE, [p EXCEPT !.header[0] = AsU8(Shr(msg_id, 8)), !.header[1] = AsU8(msg_id)])
    ELSE Done(FALSE, p)

Telemetry_set_msg_id(p, msg_id) ==
    IF msg_id \in Telemetry_ALLOWED_MSG_ID_RANGE
    THEN Done(TRUE, [p EXCEPT !.header[0] = AsU8(Shr(msg_id, 8)), !.header[1] = AsU8(msg_id)])
    ELSE Done(FALSE, p)

\* set_timestamp storing the subseconds low byte first
set_timestamp_LowFirst(p, seconds, nanoseconds) ==
    LET subsecs == DivShl16(nanoseconds, 1000000000, 47, 0, 0)
    IN  Done(TRUE, [p EXCEPT !.header[6] = U64ShrAsU8(seconds, 24),
                             !.header[7] = U64ShrAsU8(seconds, 16),
                             !.header[8] = U64ShrAsU8(seconds, 8),
                             !.header[9] = U64ShrAsU8(seconds, 0),
                             !.header[10] = AsU8(subsecs),
                             !.header[11] = AsU8(Shr(subsecs, 8))])

\* seconds: a u64 as its bytes; nanoseconds: a u32
set_timestamp(p, seconds, nanoseconds) ==
    LET subsecs == DivShl16(nanoseconds, 1000000000, 47, 0, 0)
    IN  Done(TRUE, [p EXCEPT !.header[6] = U64ShrAsU8(seconds, 24),
                             !.header[7] = U64ShrAsU8(seconds, 16),
                             !.header[8] = U64ShrAsU8(seconds, 8),
                             !.header[9] = U64ShrAsU8(seconds, 0),
                             !.header[10] = AsU8(Shr(subsecs, 8)),
                             !.header[11] = AsU8(subsecs)])

\* increment_sequence_num without the sequence flags
increment_sequence_num_NoFlags(p) ==
    LET sequence_header == BitOr(Shl(p.header[2], 8), p.header[3])
        new_sequence_header == BitAnd(AsU16(sequence_header + 1), SEQUENCE_MASK)
    IN  Done(TRUE, [p EXCEPT !.header[2] = AsU8(Shr(new_sequence_header, 8)),
                             !.header[3] = AsU8(new_sequence_header)])

increment_sequence_num(p) ==
    LET sequence_header == BitOr(Shl(p.header[2], 8), p.header[3])
        new_sequence_header == BitOr(BitAnd(AsU16(sequence_header + 1), SEQUENCE_MASK), 49152)
    IN  Done(TRUE, [p EXCEPT !.header[2] = AsU8(Shr(new_sequence_header, 8)),
                             !.header[3] = AsU8(new_sequence_header)])

-----------------------------------------------------------------------------
(* fill_char_array::<S, N>(string, ensure_null_termination) *)

fill_char_array(N, string, ensure_null_termination) ==
    LET max_untruncated_len == IF ensure_null_termination THEN N - 1 ELSE N
        is_truncated == \/ Len0(string) > max_untruncated_len
                        \/ /\ Len0(string) = max_untruncated_len
                           /\ ~(\E i \in DOMAIN string : string[i] = 0)
    IN  [output |-> [i \in 0..(N - 1) |->
                        IF i < max_untruncated_len /\ i < Len0(string) THEN string[i] ELSE 0],
         is_truncated |-> is_truncated]

-----------------------------------------------------------------------------
(* Inputs *)

Kinds == {"Command", "Telemetry"}

\* u32 message ids: both ends of the kind's range and their neighbours, an id
\* of the other kind, and an id beyond 16 bits whose low 16 bits are in range
\* (0x11800, 0x10800)
MsgIdInputs(k) == IF k = "Command" THEN {2048, 6143, 6144, 8191, 8192, 71680} ELSE {2047, 2048, 4095, 4096, 6144, 67584}

\* u16 function codes: 0x7F, 0x80, and 0x0100 whose low byte is 0
FunctionCodeInputs == {0, 1, 127, 128, 256, 65535}

\* the values of a payload type of n bytes
Payloads(n) == IF n <= MaxPayload THEN [0..(n - 1) -> {0, 255}] ELSE {[i \in 0..(n - 1) |-> 0]}

\* u64 seconds as bytes, most significant first: 100, 2^32 + 100, 0x123456789ABCDEF0
SecondsBE == {<<0, 0, 0, 0, 0, 0, 0, 100>>, <<0, 0, 0, 1, 0, 0, 0, 100>>, <<18, 52, 86, 120, 154, 188, 222, 240>>}

SecondsInputs == {[i \in 0..7 |-> t[8 - i]] : t \in SecondsBE}

NanosInputs == {15258, 500000000, 999999999}

\* receive buffers for a packet type of kind k with an n-byte payload: one byte
\* short, exact and one byte long; ids in and out of range; every value of the
\* sequence flags; the length field right and off by one; byte 6 with its top
\* bit and, for a command, without
BufferInputs(k, n) == LET size == SizeOfSelf(k, n) IN {[i \in 0..(len - 1) |-> CASE i = 0 -> AsU8(Shr(id, 8)) [] i = 1 -> AsU8(id) [] i = 2 -> b2 [] i = 3 -> b3 [] i = 4 -> AsU8(Shr(lf, 8)) [] i = 5 -> AsU8(lf) [] i = 6 -> b6 [] OTHER -> 0] : len \in {size - 1, size, size + 1}, id \in {x \in MsgIdInputs(k) : x < 65536}, b2 \in {0, 64, 128, 192, 255}, b3 \in {255}, lf \in {size - 7, size - 6}, b6 \in (IF k = "Command" THEN {127, 128} ELSE {128})}

NoArg == [msg_id |-> 0, function_code |-> 0, payload |-> <<>>, bytes |-> <<>>, seconds |-> <<>>, nanoseconds |-> 0]

ResOf(r) == IF r.ok THEN "Ok" ELSE "Err"

-----------------------------------------------------------------------------
(* The life of one packet of type Command<T> or Telemetry<T> *)

Init == /\ kind \in Kinds
        /\ sizeT \in 0..MaxPayload
        /\ pkt = <<>>
        /\ prev = <<>>
        /\ op = "none"
        /\ arg = NoArg
        /\ res = "none"
        /\ calls = 0
        /\ orig = 0
        /\ fill = <<>>

\* a constructor's result r is the packet of the behaviour; a failed
\* construction produces nothing and ends it
Construct(name, a, r) == /\ pkt' = r.pkt
                         /\ prev' = <<>>
                         /\ op' = name
                         /\ arg' = a
                         /\ res' = ResOf(r)
                         /\ orig' = IF r.ok /\ kind = "Telemetry" THEN sequence_number(r.pkt[1]) ELSE 0
                         /\ UNCHANGED <<kind, sizeT, calls, fill>>

\* a method's result r on the packet
Mutate(name, a, r) == /\ pkt' = r.pkt
                      /\ prev' = pkt
                      /\ op' = name
                      /\ arg' = a
                      /\ res' = ResOf(r)
                      /\ UNCHANGED <<kind, sizeT, orig, fill>>

CommandNew == /\ kind = "Command"
              /\ op = "none"
              /\ \E m \in MsgIdInputs(kind), f \in FunctionCodeInputs, pl \in Payloads(sizeT) :
                    Construct("new", [NoArg EXCEPT !.msg_id = m, !.function_code = f, !.payload = pl], Command_new(m, f, pl))

TelemetryNew == /\ kind = "Telemetry"
                /\ op = "none"
                /\ \E m \in MsgIdInputs(kind), pl \in Payloads(sizeT) :
                      Construct("new", [NoArg EXCEPT !.msg_id = m, !.payload = pl], Telemetry_new(m, pl))

\* the buffers received: crafted ones at the start, or the bytes of the
\* packet held (the packet sent is the packet received)
Received == IF op = "none" THEN BufferInputs(kind, sizeT) ELSE {as_bytes(pkt[i]) : i \in DOMAIN pkt}

CommandFromBytes == /\ kind = "Command"
                    /\ \E b \in Received :
                          Construct("from_bytes", [NoArg EXCEPT !.bytes = b], Command_from_bytes(sizeT, b))

TelemetryFromBytes == /\ kind = "Telemetry"
                      /\ \E b \in Received :
                            Construct("from_bytes", [NoArg EXCEPT !.bytes = b], Telemetry_from_bytes(sizeT, b))

CommandSetMsgId == /\ kind = "Command"
                   /\ pkt # <<>>
                   /\ \E m \in MsgIdInputs(kind) :
                         Mutate("set_msg_id", [NoArg EXCEPT !.msg_id = m], Command_set_msg_id(pkt[1], m))
                   /\ UNCHANGED calls

CommandSetFunctionCode == /\ kind = "Command"
                          /\ pkt # <<>>
                          /\ \E f \in FunctionCodeInputs :
                                Mutate("set_function_code", [NoArg EXCEPT !.function_code = f], set_function_code(pkt[1], f))
                          /\ UNCHANGED calls

TelemetrySetMsgId == /\ kind = "Telemetry"
                     /\ pkt # <<>>
                     /\ \E m \in MsgIdInputs(kind) :
                           Mutate("set_msg_id", [NoArg EXCEPT !.msg_id = m], Telemetry_set_msg_id(pkt[1], m))
                     /\ UNCHANGED calls

TelemetrySetTimestamp == /\ kind = "Telemetry"
                         /\ pkt # <<>>
                         /\ \E s \in SecondsInputs, ns \in NanosInputs :
                               Mutate("set_timestamp", [NoArg EXCEPT !.seconds = s, !.nanoseconds = ns], set_timestamp(pkt[1], s, ns))
                         /\ UNCHANGED calls

\* at most limit calls are followed
TelemetryIncrementSequenceNum(limit) == /\ kind = "Telemetry"
                                        /\ pkt # <<>>
                                        /\ calls < limit
                                        /\ Mutate("increment_sequence_num", NoArg, increment_sequence_num(pkt[1]))
                                        /\ calls' = calls + 1

IncrementSome == TelemetryIncrementSequenceNum(MaxIncr)

Next == \/ CommandNew
        \/ TelemetryNew
        \/ CommandFromBytes
        \/ TelemetryFromBytes
        \/ CommandSetMsgId
        \/ CommandSetFunctionCode
        \/ TelemetrySetMsgId
        \/ TelemetrySetTimestamp
        \/ IncrementSome

Spec == Init /\ [][Next]_vars

-----------------------------------------------------------------------------
(* Construction alone, for payload types up to the largest a length field holds *)

\* the largest size_of::<T>() whose packet length fits the 16-bit length field
LargestPayload(k) == 65535 + 7 - HeaderLen(k)

InitNew == /\ kind \in Kinds
           /\ sizeT \in {0, MaxPayload, LargestPayload(kind), LargestPayload(kind) + 1}
           /\ pkt = <<>>
           /\ prev = <<>>
           /\ op = "none"
           /\ arg = NoArg
           /\ res = "none"
           /\ calls = 0
           /\ orig = 0
           /\ fill = <<>>

NextNew == \/ CommandNew
           \/ TelemetryNew

SpecNew == InitNew /\ [][NextNew]_vars

-----------------------------------------------------------------------------
(* A full cycle of the sequence counter of one telemetry packet *)

SequenceModulus == SEQUENCE_MASK + 1

\* a new packet's bytes with bytes 2-3 as received: count 0, and 0xFFFF
SeqStartBuffers == {[as_bytes(Telemetry_new(2048, <<>>).pkt[1]) EXCEPT ![2] = b[1], ![3] = b[2]] : b \in {<<192, 0>>, <<255, 255>>}}

InitSeq == /\ kind = "Telemetry"
           /\ sizeT = 0
           /\ \E b \in SeqStartBuffers :
                 /\ pkt = Telemetry_from_bytes(0, b).pkt
                 /\ arg = [NoArg EXCEPT !.bytes = b]
           /\ prev = <<>>
           /\ op = "from_bytes"
           /\ res = "Ok"
           /\ calls = 0
           /\ orig = sequence_number(pkt[1])
           /\ fill = <<>>

IncrementCycle == TelemetryIncrementSequenceNum(SequenceModulus)

NextSeq == IncrementCycle

SpecSeq == InitSeq /\ [][NextSeq]_vars

-----------------------------------------------------------------------------
(* fill_char_array on its own *)

\* the inputs: every string of 0 and 'A' bytes up to MaxLen
StringInputs == UNION {[0..(len - 1) -> {0, 65}] : len \in 0..MaxLen}

\* N - 1 of a capacity 0 overflows usize; such calls are left out
FillCharArray == \E N \in 0..MaxN, string \in StringInputs, e \in BOOLEAN :
                    /\ e => N >= 1
                    /\ fill' = <<[N |-> N, string |-> string, ensure_null_termination |-> e, result |-> fill_char_array(N, string, e)]>>
                    /\ op' = "fill_char_array"
                    /\ UNCHANGED <<kind, sizeT, pkt, prev, arg, res, calls, orig>>

InitFill == /\ kind = "Command"
            /\ sizeT = 0
            /\ pkt = <<>>
            /\ prev = <<>>
            /\ op = "none"
            /\ arg = NoArg
            /\ res = "none"
            /\ calls = 0
            /\ orig = 0
            /\ fill = <<>>

NextFill == FillCharArray

SpecFill == InitFill /\ [][NextFill]_vars

-----------------------------------------------------------------------------
(* Properties *)

Held == pkt # <<>>

\* from_bytes and msg_id of the kind of the packet
FromBytes(b) == IF kind = "Command" THEN Command_from_bytes(sizeT, b) ELSE Telemetry_from_bytes(sizeT, b)

MsgId(p) == IF kind = "Command" THEN Command_msg_id(p) ELSE Telemetry_msg_id(p)

\* the header bytes of q outside the set of indices S, and its payload, are those of p
SameOutside(p, q, S) ==
    /\ \A i \in DOMAIN p.header \ S : q.header[i] = p.header[i]
    /\ q.payload = p.payload

\* C1: a packet built by new, serialized with as_bytes and rebuilt with
\* from_bytes gives back, through msg_id(), function_code() (Command) and the
\* payload, the values new was given.
C1_RoundTripAccessors ==
    (op = "new" /\ res = "Ok") =>
        LET r == FromBytes(as_bytes(pkt[1]))
        IN  /\ r.ok
            /\ MsgId(r.pkt[1]) = arg.msg_id
            /\ kind = "Command" => function_code(r.pkt[1]) = arg.function_code
            /\ r.pkt[1].payload = arg.payload

\* the part of C1 the accessors of the code deliver: the function code and the
\* payload come back, and msg_id() gives the low byte of the message id
C1_AsCoded ==
    (op = "new" /\ res = "Ok") =>
        LET r == FromBytes(as_bytes(pkt[1]))
        IN  /\ r.ok
            /\ MsgId(r.pkt[1]) = arg.msg_id % 256
            /\ kind = "Command" => function_code(r.pkt[1]) = arg.function_code
            /\ r.pkt[1].payload = arg.payload

\* C2: new fails exactly when the message id is outside the kind's range
\* (Command 0x1800..0x1FFF, Telemetry 0x0800..0x0FFF), or the Command's
\* function code is above 0x7F, or size_of(packet) - 7 is above 0xFFFF; a
\* failed new produces no packet.
C2_NewValidation ==
    op = "new" =>
        LET bad == \/ kind = "Command" /\ (arg.msg_id < 6144 \/ arg.msg_id > 8191)
                   \/ kind = "Telemetry" /\ (arg.msg_id < 2048 \/ arg.msg_id > 4095)
                   \/ kind = "Command" /\ arg.function_code > 127
                   \/ SizeOfSelf(kind, sizeT) - 7 > 65535
        IN  /\ res = "Err" <=> bad
            /\ res = "Err" <=> pkt = <<>>

\* new refused for the packet size alone
C2_Witness ==
    /\ op = "new" /\ res = "Err"
    /\ kind = "Command" /\ arg.msg_id = 6144 /\ arg.function_code = 127
    /\ SizeOfSelf(kind, sizeT) - 7 = 65536

\* C3: from_bytes fails exactly when the buffer's length is not
\* size_of(packet), or bytes 0-1 (big-endian) are outside the kind's range, or
\* bytes 4-5 (big-endian) plus 7 differ from the buffer's length, or the top
\* two bits of byte 2 are not 11, or (Command) bit 7 of byte 6 is set;
\* otherwise it gives a packet whose bytes are the buffer's.
C3_FromBytesChecks ==
    op = "from_bytes" =>
        LET b == arg.bytes
            id == 256 * b[0] + b[1]
            bad == \/ Len0(b) # SizeOfSelf(kind, sizeT)
                   \/ kind = "Command" /\ (id < 6144 \/ id > 8191)
                   \/ kind = "Telemetry" /\ (id < 2048 \/ id > 4095)
                   \/ 256 * b[4] + b[5] + 7 # Len0(b)
                   \/ b[2] \div 64 \in {0, 1, 2}
                   \/ kind = "Command" /\ b[6] >= 128
        IN  /\ res = "Err" <=> bad
            /\ res = "Err" => pkt = <<>>
            /\ res = "Ok" => Held /\ as_bytes(pkt[1]) = b

\* a buffer right in everything but its sequence flags, which are 10
C3_Witness ==
    /\ op = "from_bytes" /\ res = "Err" /\ prev = <<>>
    /\ Len0(arg.bytes) = SizeOfSelf(kind, sizeT)
    /\ 256 * arg.bytes[0] + arg.bytes[1] = 6144
    /\ 256 * arg.bytes[4] + arg.bytes[5] + 7 = Len0(arg.bytes)
    /\ arg.bytes[2] = 128
    /\ arg.bytes[6] = 127

\* C4: whatever was called on it, a packet's bytes 0-1 (big-endian) are in
\* its kind's range, the top two bits of byte 2 are 11, bytes 4-5
\* (big-endian) are the packet's size minus 7, and a Command's byte 6 is at
\* most 0x7F.
C4_HeaderInvariants ==
    Held =>
        LET h == pkt[1].header
            id == 256 * h[0] + h[1]
        IN  /\ kind = "Command" => id >= 6144 /\ id <= 8191
            /\ kind = "Telemetry" => id >= 2048 /\ id <= 4095
            /\ h[2] \div 64 = 3
            /\ 256 * h[4] + h[5] = Len0(as_bytes(pkt[1])) - 7
            /\ Len0(as_bytes(pkt[1])) = SizeOfSelf(kind, sizeT)
            /\ kind = "Command" => h[6] <= 127

\* a telemetry packet after a refused set_msg_id that followed an increment
C4_Witness ==
    /\ Held /\ kind = "Telemetry"
    /\ op = "set_msg_id" /\ res = "Err" /\ arg.msg_id = 6144
    /\ calls > 0

\* C5: from_bytes of the as_bytes of any packet succeeds and gives a packet
\* with the same header and payload.
C5_BytesRoundTrip ==
    Held => FromBytes(as_bytes(pkt[1])) = Ok(pkt[1])

\* a telemetry packet whose timestamp has the top bit of byte 6 set, after
\* an increment
C5_Witness ==
    /\ Held /\ kind = "Telemetry"
    /\ op = "increment_sequence_num"
    /\ pkt[1].header[6] >= 128
    /\ FromBytes(as_bytes(pkt[1])).ok

\* C6: increment_sequence_num never fails, sets sequence_number() to the
\* previous one plus 1 modulo 0x4000 and leaves the top two bits of byte 2 at
\* 11; after 0x4000 calls sequence_number() is again what it was.
C6_SequenceCycle ==
    /\ op = "increment_sequence_num" =>
          /\ res = "Ok"
          /\ sequence_number(pkt[1]) = (sequence_number(prev[1]) + 1) % 16384
          /\ pkt[1].header[2] \div 64 = 3
    /\ calls = 16384 => sequence_number(pkt[1]) = orig

\* the 0x4000th call wraps the counter from 0x3FFF to the 0 it started from
C6_Witness ==
    /\ op = "increment_sequence_num"
    /\ calls = 16384
    /\ orig = 0
    /\ sequence_number(prev[1]) = 16383
    /\ sequence_number(pkt[1]) = 0

\* floor(ns * 65536 / 10^9) for ns < 10^9, as floor(ns * 128 / 5^9) taken in
\* two parts
FloorSubseconds(ns) == 128 * (ns \div 1953125) + ((128 * (ns % 1953125)) \div 1953125)

\* C7: after set_timestamp(seconds, nanoseconds) with nanoseconds below 10^9,
\* timestamp() is (seconds mod 2^32, floor(nanoseconds * 65536 / 10^9)), the
\* subseconds below 65536: (100, 500_000_000) gives (100, 32768) and
\* 999_999_999 nanoseconds give 65535.
C7_Timestamp ==
    op = "set_timestamp" =>
        LET t == timestamp(pkt[1])
        IN  /\ t.seconds = [i \in 0..3 |-> arg.seconds[i]]
            /\ t.subsecs = FloorSubseconds(arg.nanoseconds)
            /\ t.subsecs < 65536
            /\ arg.nanoseconds = 500000000 => t.subsecs = 32768
            /\ arg.nanoseconds = 999999999 => t.subsecs = 65535
            /\ arg.nanoseconds = 15258 => t.subsecs = 0
            /\ arg.seconds = [i \in 0..7 |-> IF i = 0 THEN 100 ELSE 0] => t.seconds = [i \in 0..3 |-> IF i = 0 THEN 100 ELSE 0]

\* set_timestamp(2^32 + 100, 999_999_999)
C7_Witness ==
    /\ op = "set_timestamp"
    /\ arg.seconds = [i \in 0..7 |-> IF i = 0 THEN 100 ELSE IF i = 4 THEN 1 ELSE 0]
    /\ arg.nanoseconds = 999999999
    /\ timestamp(pkt[1]).subsecs = 65535

\* C8: a successful set_msg_id changes at most bytes 0-1, a successful
\* set_function_code at most byte 6, set_timestamp at most bytes 6-11,
\* increment_sequence_num at most bytes 2-3, none of them the payload; a
\* refused set_msg_id or set_function_code changes nothing.
C8_Frame ==
    /\ (op = "set_msg_id" /\ res = "Ok") => SameOutside(prev[1], pkt[1], {0, 1})
    /\ (op = "set_function_code" /\ res = "Ok") => SameOutside(prev[1], pkt[1], {6})
    /\ op = "set_timestamp" => SameOutside(prev[1], pkt[1], 6..11)
    /\ op = "increment_sequence_num" => SameOutside(prev[1], pkt[1], {2, 3})
    /\ (op \in {"set_msg_id", "set_function_code"} /\ res = "Err") => pkt = prev

\* a refused set_msg_id on a command whose function code was set before
C8_Witness ==
    /\ kind = "Command" /\ Held
    /\ op = "set_msg_id" /\ res = "Err" /\ arg.msg_id = 71680
    /\ pkt[1].header[6] = 1

\* the last call, if a setter, as a function of the packet
LastSetter(p) ==
    CASE op = "set_msg_id" /\ kind = "Command" -> Command_set_msg_id(p, arg.msg_id)
      [] op = "set_msg_id" /\ kind = "Telemetry" -> Telemetry_set_msg_id(p, arg.msg_id)
      [] op = "set_function_code" -> set_function_code(p, arg.function_code)
      [] op = "set_timestamp" -> set_timestamp(p, arg.seconds, arg.nanoseconds)

\* the calls of the other setter of the kind, as functions of the packet
OtherSetters ==
    CASE op = "set_msg_id" /\ kind = "Command" -> {[name |-> "set_function_code", a |-> [NoArg EXCEPT !.function_code = f]] : f \in FunctionCodeInputs}
      [] op = "set_msg_id" /\ kind = "Telemetry" -> {[name |-> "set_timestamp", a |-> [NoArg EXCEPT !.seconds = x, !.nanoseconds = ns]] : x \in SecondsInputs, ns \in NanosInputs}
      [] OTHER -> {[name |-> "set_msg_id", a |-> [NoArg EXCEPT !.msg_id = m]] : m \in MsgIdInputs(kind)}

ApplySetter(c, p) ==
    CASE c.name = "set_msg_id" /\ kind = "Command" -> Command_set_msg_id(p, c.a.msg_id)
      [] c.name = "set_msg_id" /\ kind = "Telemetry" -> Telemetry_set_msg_id(p, c.a.msg_id)
      [] c.name = "set_function_code" -> set_function_code(p, c.a.function_code)
      [] c.name = "set_timestamp" -> set_timestamp(p, c.a.seconds, c.a.nanoseconds)

\* C9: a setter called again with the same arguments changes nothing and
\* gives the same result; and the setter just called and any call of the
\* other setter, applied in either order to the packet as it was, give the
\* same packet and the same two results.
C9_IdempotentCommute ==
    op \in {"set_msg_id", "set_function_code", "set_timestamp"} =>
        /\ LastSetter(pkt[1]) = [ok |-> res = "Ok", pkt |-> pkt]
        /\ \A c \in OtherSetters :
              LET first == ApplySetter(c, prev[1])
                  then == LastSetter(first.pkt[1])
                  after == ApplySetter(c, pkt[1])
              IN  /\ then.pkt = after.pkt
                  /\ then.ok = (res = "Ok")
                  /\ first.ok = after.ok

\* set_function_code(0x7F) accepted on a command of message id 0x..FF whose
\* function code was 1
C9_Witness ==
    /\ kind = "Command" /\ Held
    /\ op = "set_function_code" /\ res = "Ok" /\ arg.function_code = 127
    /\ pkt[1].header[1] = 255
    /\ prev[1].header[6] = 1

\* C10: fill_char_array reports truncation exactly when the input is longer
\* than the copyable capacity C (N - 1 with null termination, else N), or
\* null termination is required and the input has exactly C bytes, none of
\* them zero.
C10_Truncation ==
    fill # <<>> =>
        LET f == fill[1]
            C == IF f.ensure_null_termination THEN f.N - 1 ELSE f.N
            len == Len0(f.string)
        IN  f.result.is_truncated <=>
                \/ len > C
                \/ /\ f.ensure_null_termination
                   /\ len = C
                   /\ \A i \in DOMAIN f.string : f.string[i] # 0

=============================================================================
